---- MODULE Spec2Model ----
(***************************************************************************)
(* Model of week-0/maze0.py: the frontier classes (BaseFrontier,           *)
(* StackFrontier, QueueFrontier), Node and the Maze search engine.         *)
(*                                                                         *)
(* A grid is a sequence of rows, a row a sequence of one-character         *)
(* strings.  Python indexes from 0, TLA+ sequences from 1: node            *)
(* coordinates (x = row, y = column) keep Python's 0-based values and      *)
(* PyPos turns a Python index into a sequence position.                    *)
(***************************************************************************)
EXTENDS Integers, Sequences, FiniteSets, TLC

\* Bounds of the grids explored by the search specification.
MaxRows == 3
MaxCols == 3
MaxCells == 9
\* Bounds of the raw file contents explored by the construction specification.
MaxFileRows == 2
MaxFileCols == 2
\* Bounds of the frontier specification: coordinates 0..MaxCoord on each axis,
\* at most MaxOps calls.
MaxCoord == 1
MaxOps == 4

START == "A"
TARGET == "B"
WALL == "#"
OPEN == " "
EXPLORED == "/"
PATH == "*"

\* Python's None, and a present optional value <<v>>.
None == <<>>

VARIABLES
    file,            \* the lines of the maze file, each a sequence of characters
    pc,              \* "new" | "config_error" | "ready" | "running" |
                     \* "solved" | "exhausted" | "crashed" | "frontier"
    raised,          \* message of the exception that ended the call, or ""
    maze_arr,        \* Maze.maze_arr
    start_point,     \* Maze.start_point: <<>> or <<row, col>>
    end_point,       \* Maze.end_point
    rows_count,      \* Maze.rows_count
    cells_count,     \* Maze.cells_count
    steps,           \* Maze.steps
    kind,            \* class of the frontier: "stack" | "queue" | "none"
    nodes,           \* frontier.nodes (pending)
    explored_nodes,  \* frontier.explored_nodes
    node,            \* solve's local `node`: None or <<the node last popped>>
    result,          \* what the last call returned: "none" | "True" | "False"
                     \* for solve; None or <<node>> is kept in `node`
    ops              \* number of frontier calls made (frontier specification)

vars == <<file, pc, raised, maze_arr, start_point, end_point, rows_count,
          cells_count, steps, kind, nodes, explored_nodes, node, result, ops>>

mazeVars == <<file, maze_arr, start_point, end_point, rows_count, cells_count,
              steps>>

---------------------------------------------------------------------------
(* Python list indexing *)

\* Position in a sequence of length n of Python index i; 0 stands for IndexError.
PyPos(n, i) ==
    IF 0 <= i /\ i < n THEN i + 1
    ELSE IF 0 - n <= i /\ i < 0 THEN n + i + 1
    ELSE 0

\* arr[x][y] as Python evaluates it.
Cell(arr, x, y) ==
    LET r == PyPos(Len(arr), x) IN
    IF r = 0 THEN "IndexError"
    ELSE LET c == PyPos(Len(arr[r]), y) IN
         IF c = 0 THEN "IndexError" ELSE arr[r][c]

\* arr[x][y] = v
SetCell(arr, x, y, v) ==
    LET r == PyPos(Len(arr), x)
        c == PyPos(Len(arr[r]), y)
    IN  [arr EXCEPT ![r][c] = v]

---------------------------------------------------------------------------
(* Node *)

\* A constructor that does not store the parent.
NodeNoParent(state, x, y, action, parent) ==
    [state |-> state, x |-> x, y |-> y, action |-> action, parent |-> None]

Node(state, x, y, action, parent) ==
    [state |-> state, x |-> x, y |-> y, action |-> action, parent |-> parent]

\* Equality that also compares the state field.
NodeEqWithState(a, b) == a.x = b.x /\ a.y = b.y /\ a.state = b.state

\* Node.__eq__: coordinates only.
NodeEq(a, b) == a.x = b.x /\ a.y = b.y

\* `node in lst` for a list of nodes.
Contains(lst, n) == \E i \in 1..Len(lst) : NodeEq(lst[i], n)

---------------------------------------------------------------------------
(* Frontier *)

\* add that tests only self.nodes.
AddNoExploredCheck(pending, explored, n) ==
    IF ~Contains(pending, n) THEN Append(pending, n) ELSE pending

\* add that tests only self.explored_nodes.
AddNoPendingCheck(pending, explored, n) ==
    IF ~Contains(explored, n) THEN Append(pending, n) ELSE pending

\* The pending list with the node at n's coordinate replaced by n.
ReplaceIn(pending, n) ==
    [i \in 1..Len(pending) |-> IF NodeEq(pending[i], n) THEN n ELSE pending[i]]

\* add that overwrites a pending node of the same coordinate with the new one.
AddReplacePending(pending, explored, n) ==
    IF Contains(explored, n) THEN pending
    ELSE IF Contains(pending, n) THEN ReplaceIn(pending, n)
    ELSE Append(pending, n)

\* BaseFrontier.add: the new value of self.nodes.
add(pending, explored, n) ==
    IF ~Contains(pending, n) /\ ~Contains(explored, n)
    THEN Append(pending, n)
    ELSE pending

\* An is_empty that never reports an empty frontier.
IsEmptyNever(pending) == FALSE

is_empty(pending) == Len(pending) = 0

\* A stack's remove that takes the first node, as the queue does.
StackRemoveFirst(pending, explored) ==
    [node |-> pending[1],
     nodes |-> SubSeq(pending, 2, Len(pending)),
     explored_nodes |-> Append(explored, pending[1])]

\* StackFrontier.remove on a non-empty list: the node returned and the new
\* values of self.nodes and self.explored_nodes.
StackRemove(pending, explored) ==
    [node |-> pending[Len(pending)],
     nodes |-> SubSeq(pending, 1, Len(pending) - 1),
     explored_nodes |-> Append(explored, pending[Len(pending)])]

\* A queue's remove that takes the last node, as the stack does.
QueueRemoveLast(pending, explored) ==
    [node |-> pending[Len(pending)],
     nodes |-> SubSeq(pending, 1, Len(pending) - 1),
     explored_nodes |-> Append(explored, pending[Len(pending)])]

\* QueueFrontier.remove on a non-empty list.
QueueRemove(pending, explored) ==
    [node |-> pending[1],
     nodes |-> SubSeq(pending, 2, Len(pending)),
     explored_nodes |-> Append(explored, pending[1])]

\* The index the remove of class k reads: self.nodes[-1] or self.nodes[0].
RemoveIndex(k) == IF k = "stack" THEN 0 - 1 ELSE 0

\* Whether that read raises IndexError, which ends remove before any
\* assignment.
RemoveRaises(k, pending) == PyPos(Len(pending), RemoveIndex(k)) = 0

\* frontier.remove(), dispatched on the class of the frontier.
remove(k, pending, explored) ==
    IF k = "stack" THEN StackRemove(pending, explored)
    ELSE QueueRemove(pending, explored)

---------------------------------------------------------------------------
(* Maze: construction *)

\* line.rstrip('\n')
RECURSIVE RStripNewline(_)
RStripNewline(line) ==
    IF Len(line) > 0 /\ line[Len(line)] = "\n"
    THEN RStripNewline(SubSeq(line, 1, Len(line) - 1))
    ELSE line

\* Maze._parse_maze_file: one list of characters per line of the file.
_parse_maze_file(f) == [i \in 1..Len(f) |-> RStripNewline(f[i])]

\* The inner loop of _get_start_end_points over row number i (0-based),
\* from column j on; acc holds starting_point and ending_point so far.
RECURSIVE ScanRow(_, _, _, _)
ScanRow(row, i, j, acc) ==
    IF j >= Len(row) THEN acc
    ELSE ScanRow(row, i, j + 1,
            IF row[j + 1] = START THEN [acc EXCEPT !.s = <<i, j>>]
            ELSE IF row[j + 1] = TARGET THEN [acc EXCEPT !.e = <<i, j>>]
            ELSE acc)

RECURSIVE ScanRows(_, _, _)
ScanRows(arr, i, acc) ==
    IF i >= Len(arr) THEN acc
    ELSE ScanRows(arr, i + 1, ScanRow(arr[i + 1], i, 0, acc))

\* Maze._get_start_end_points: .s the start point, .e the target point.
_get_start_end_points(arr) == ScanRows(arr, 0, [s |-> <<>>, e |-> <<>>])

\* Validation whose last test needs both points to be missing.
ValidateBothMissing(arr, sp, ep) ==
    IF Len(arr) < 1 THEN "Maze is empty"
    ELSE IF \E i \in 1..Len(arr) : Len(arr[i]) # Len(arr[1])
         THEN "Maze rows must have the same number of cells"
    ELSE IF Len(ep) # 2 /\ Len(sp) # 2
         THEN "Maze doesn't contain start and end points"
    ELSE ""

\* Maze._validate_maze_points: the message of the exception raised, "" if none.
_validate_maze_points(arr, sp, ep) ==
    IF Len(arr) < 1 THEN "Maze is empty"
    ELSE IF \E i \in 1..Len(arr) : Len(arr[i]) # Len(arr[1])
         THEN "Maze rows must have the same number of cells"
    ELSE IF Len(ep) # 2 \/ Len(sp) # 2
         THEN "Maze doesn't contain start and end points"
    ELSE ""

---------------------------------------------------------------------------
(* Maze: neighbours *)

\* The directions taken clockwise.
movementsClockwise == <<"UP", "RIGHT", "DOWN", "LEFT">>

\* The list `movements` of _get_neighbors.
movements == <<"UP", "LEFT", "DOWN", "RIGHT">>

\* _next_cell whose RIGHT bound is one column short.
NextCellShortRight(arr, rows, cells, x, y, movement) ==
    IF movement = "UP" THEN
        IF x - 1 < 0 \/ Cell(arr, x - 1, y) = WALL THEN None ELSE <<x - 1, y>>
    ELSE IF movement = "DOWN" THEN
        IF x + 1 >= rows \/ Cell(arr, x + 1, y) = WALL THEN None ELSE <<x + 1, y>>
    ELSE IF movement = "LEFT" THEN
        IF y - 1 < 0 \/ Cell(arr, x, y - 1) = WALL THEN None ELSE <<x, y - 1>>
    ELSE IF movement = "RIGHT" THEN
        IF y + 1 >= cells - 1 \/ Cell(arr, x, y + 1) = WALL THEN None
        ELSE <<x, y + 1>>
    ELSE <<x, y>>

\* _next_cell that does not test the upper edge when moving UP.
NextCellNoUpBound(arr, rows, cells, x, y, movement) ==
    IF movement = "UP" THEN
        IF Cell(arr, x - 1, y) = WALL THEN None ELSE <<x - 1, y>>
    ELSE IF movement = "DOWN" THEN
        IF x + 1 >= rows \/ Cell(arr, x + 1, y) = WALL THEN None ELSE <<x + 1, y>>
    ELSE IF movement = "LEFT" THEN
        IF y - 1 < 0 \/ Cell(arr, x, y - 1) = WALL THEN None ELSE <<x, y - 1>>
    ELSE IF movement = "RIGHT" THEN
        IF y + 1 >= cells \/ Cell(arr, x, y + 1) = WALL THEN None ELSE <<x, y + 1>>
    ELSE <<x, y>>

\* Maze._next_cell: None, or <<x, y>> of the cell one step away.
_next_cell(arr, rows, cells, x, y, movement) ==
    IF movement = "UP" THEN
        IF x - 1 < 0 \/ Cell(arr, x - 1, y) = WALL THEN None ELSE <<x - 1, y>>
    ELSE IF movement = "DOWN" THEN
        IF x + 1 >= rows \/ Cell(arr, x + 1, y) = WALL THEN None ELSE <<x + 1, y>>
    ELSE IF movement = "LEFT" THEN
        IF y - 1 < 0 \/ Cell(arr, x, y - 1) = WALL THEN None ELSE <<x, y - 1>>
    ELSE IF movement = "RIGHT" THEN
        IF y + 1 >= cells \/ Cell(arr, x, y + 1) = WALL THEN None ELSE <<x, y + 1>>
    ELSE <<x, y>>

\* The subscripts <<x, y>> at which _next_cell evaluates maze_arr[x][y]: the
\* right operand of each `or` is evaluated only when the bound test is false.
NextCellReads(rows, cells, x, y, movement) ==
    IF movement = "UP" THEN
        IF x - 1 < 0 THEN {} ELSE {<<x - 1, y>>}
    ELSE IF movement = "DOWN" THEN
        IF x + 1 >= rows THEN {} ELSE {<<x + 1, y>>}
    ELSE IF movement = "LEFT" THEN
        IF y - 1 < 0 THEN {} ELSE {<<x, y - 1>>}
    ELSE IF movement = "RIGHT" THEN
        IF y + 1 >= cells THEN {} ELSE {<<x, y + 1>>}
    ELSE {}

\* _get_state with the two subscripts exchanged.
GetStateSwapped(arr, x, y) == Cell(arr, y, x)

\* Maze._get_state
_get_state(arr, x, y) == Cell(arr, x, y)

\* The loop of _get_neighbors from the k-th movement on.
RECURSIVE NeighborsFrom(_, _, _, _, _)
NeighborsFrom(arr, rows, cells, n, k) ==
    IF k > Len(movements) THEN <<>>
    ELSE LET coords == _next_cell(arr, rows, cells, n.x, n.y, movements[k])
             rest == NeighborsFrom(arr, rows, cells, n, k + 1)
         IN  IF coords # None
             THEN <<Node(_get_state(arr, coords[1], coords[2]),
                         coords[1], coords[2], movements[k], <<n>>)>> \o rest
             ELSE rest

\* _get_neighbors whose loop skips the first movement.
GetNeighborsSkipFirst(arr, rows, cells, n) ==
    NeighborsFrom(arr, rows, cells, n, 2)

\* Maze._get_neighbors
_get_neighbors(arr, rows, cells, n) == NeighborsFrom(arr, rows, cells, n, 1)

---------------------------------------------------------------------------
(* Maze: solution path *)

\* The while loop of _apply_solution, p the current node as an optional
\* value: reading .state of None raises AttributeError.
\* (The grid and the node of the next round are bound to their values
\* before the recursive use: an operator's arguments are passed unevaluated.)
RECURSIVE ApplyWalk(_, _)
ApplyWalk(arr, p) ==
    IF p = None THEN [arr |-> arr, raised |-> "AttributeError"]
    ELSE IF p[1].state # START
         THEN CHOOSE w \in {ApplyWalk(a, q) :
                              a \in {SetCell(arr, p[1].x, p[1].y, PATH)},
                              q \in {p[1].parent}} : TRUE
    ELSE [arr |-> arr, raised |-> ""]

\* A walk that starts at the target node itself.
ApplyFromNode(arr, n) == ApplyWalk(arr, <<n>>)

\* Maze._apply_solution
_apply_solution(arr, n) == ApplyWalk(arr, n.parent)

\* The for loop of solve: frontier.add of every new node, in order.
RECURSIVE AddAll(_, _, _)
AddAll(pending, explored, new_nodes) ==
    IF new_nodes = <<>> THEN pending
    ELSE CHOOSE w \in {AddAll(a, explored, t) :
                         a \in {add(pending, explored, Head(new_nodes))},
                         t \in {Tail(new_nodes)}} : TRUE

\* Painting the popped cell whatever it holds.
MarkAlways(arr, n) == SetCell(arr, n.x, n.y, EXPLORED)

\* Line 134 of solve: paint the popped cell explored only if it is open.
MarkExplored(arr, n) ==
    SetCell(arr, n.x, n.y,
            IF Cell(arr, n.x, n.y) = OPEN THEN EXPLORED ELSE Cell(arr, n.x, n.y))

---------------------------------------------------------------------------
(* Inputs *)

Chars == {OPEN, WALL, START, TARGET}

\* The text of a file holding the given rows, every line newline-terminated.
FileOf(rows) == [i \in 1..Len(rows) |-> rows[i] \o <<"\n">>]

CellsOf(r, c) == (0..(r - 1)) \X (0..(c - 1))

\* The r x c grid with start s, target t and walls W.
GridOf(r, c, s, t, W) ==
    [i \in 1..r |-> [j \in 1..c |->
        IF <<i - 1, j - 1>> = s THEN START
        ELSE IF <<i - 1, j - 1>> = t THEN TARGET
        ELSE IF <<i - 1, j - 1>> \in W THEN WALL
        ELSE OPEN]]

Shapes ==
    {d \in (1..MaxRows) \X (1..MaxCols) : d[1] * d[2] >= 2 /\ d[1] * d[2] <= MaxCells}

\* The valid grids: rectangular, exactly one start and exactly one target.
ValidGrids ==
    UNION {UNION {UNION {
        {GridOf(d[1], d[2], s, t, W) :
            W \in SUBSET (CellsOf(d[1], d[2]) \ {s, t})} :
        t \in CellsOf(d[1], d[2]) \ {s}} :
        s \in CellsOf(d[1], d[2])} :
        d \in Shapes}

\* Every row of at most MaxFileCols characters.
FileRows == UNION {[1..c -> Chars] : c \in 0..MaxFileCols}

\* Every list of at most MaxFileRows such rows, rectangular or not.
RawGrids == UNION {[1..r -> FileRows] : r \in 0..MaxFileRows}

Unset == 0 - 1

InitCommon ==
    /\ raised = ""
    /\ maze_arr = <<>>
    /\ start_point = <<>>
    /\ end_point = <<>>
    /\ rows_count = Unset
    /\ cells_count = Unset
    /\ steps = Unset
    /\ nodes = <<>>
    /\ explored_nodes = <<>>
    /\ node = None
    /\ result = "none"
    /\ ops = 0

\* A maze file holding a valid grid, before Maze(filename).
Init ==
    /\ file \in {FileOf(g) : g \in ValidGrids}
    /\ pc = "new"
    /\ kind = "none"
    /\ InitCommon

\* Any maze file, before Maze(filename).
InitLoad ==
    /\ file \in {FileOf(g) : g \in RawGrids}
    /\ pc = "new"
    /\ kind = "none"
    /\ InitCommon

---------------------------------------------------------------------------
(* Maze.__init__ *)

\* __init__ that starts the step counter at 1.
ConstructStepsOne ==
    /\ pc = "new"
    /\ LET arr == _parse_maze_file(file)
           pts == _get_start_end_points(arr)
           msg == _validate_maze_points(arr, pts.s, pts.e)
       IN  /\ maze_arr' = arr
           /\ start_point' = pts.s
           /\ end_point' = pts.e
           /\ raised' = msg
           /\ IF msg = ""
              THEN /\ rows_count' = Len(arr)
                   /\ cells_count' = Len(arr[1])
                   /\ steps' = 1
                   /\ pc' = "ready"
              ELSE /\ pc' = "config_error"
                   /\ UNCHANGED <<rows_count, cells_count, steps>>
    /\ UNCHANGED <<file, kind, nodes, explored_nodes, node, result, ops>>

Construct ==
    /\ pc = "new"
    /\ LET arr == _parse_maze_file(file)
           pts == _get_start_end_points(arr)
           msg == _validate_maze_points(arr, pts.s, pts.e)
       IN  /\ maze_arr' = arr
           /\ start_point' = pts.s
           /\ end_point' = pts.e
           /\ raised' = msg
           /\ IF msg = ""
              THEN /\ rows_count' = Len(arr)
                   /\ cells_count' = Len(arr[1])
                   /\ steps' = 0
                   /\ pc' = "ready"
              ELSE /\ pc' = "config_error"
                   /\ UNCHANGED <<rows_count, cells_count, steps>>
    /\ UNCHANGED <<file, kind, nodes, explored_nodes, node, result, ops>>

---------------------------------------------------------------------------
(* Maze.solve *)

\* Lines 128-130, called with a fresh frontier of class k.
SolveBegin(k) ==
    /\ pc = "ready"
    /\ LET x == start_point[1]
           y == start_point[2]
           root == Node(Cell(maze_arr, x, y), x, y, "None", None)
       IN  /\ node' = <<root>>
           /\ nodes' = add(<<>>, <<>>, root)
    /\ kind' = k
    /\ explored_nodes' = <<>>
    /\ pc' = "running"
    /\ UNCHANGED <<mazeVars, raised, result, ops>>

\* One iteration of the while loop, lines 131-140.  A run is followed for
\* at most MaxCells + 1 pops, one more than the largest grid has cells.
SolveStep ==
    /\ pc = "running"
    /\ ~is_empty(nodes)
    /\ steps <= MaxCells
    /\ steps' = steps + 1
    /\ IF RemoveRaises(kind, nodes)
       THEN /\ pc' = "crashed"
            /\ raised' = "IndexError"
            /\ UNCHANGED <<maze_arr, nodes, explored_nodes, node, result>>
       ELSE
       \E r \in {remove(kind, nodes, explored_nodes)} :
       \E arr \in {MarkExplored(maze_arr, r.node)} :
           /\ node' = <<r.node>>
           /\ explored_nodes' = r.explored_nodes
           /\ IF r.node.state = TARGET
              THEN \E sol \in {_apply_solution(arr, r.node)} :
                   /\ maze_arr' = sol.arr
                   /\ nodes' = r.nodes
                   /\ raised' = sol.raised
                   /\ IF sol.raised = ""
                      THEN pc' = "solved" /\ result' = "True"
                      ELSE pc' = "crashed" /\ result' = result
              ELSE \E new_nodes \in
                       {_get_neighbors(arr, rows_count, cells_count, r.node)} :
                   /\ maze_arr' = arr
                   /\ nodes' = AddAll(r.nodes, r.explored_nodes, new_nodes)
                   /\ UNCHANGED <<pc, raised, result>>
    /\ UNCHANGED <<file, start_point, end_point, rows_count, cells_count,
                   kind, ops>>

\* The loop condition fails: line 141.
SolveExhausted ==
    /\ pc = "running"
    /\ is_empty(nodes)
    /\ pc' = "exhausted"
    /\ result' = "False"
    /\ UNCHANGED <<mazeVars, raised, kind, nodes, explored_nodes, node, ops>>

Next ==
    \/ Construct
    \/ \E k \in {"stack", "queue"} : SolveBegin(k)
    \/ SolveStep
    \/ SolveExhausted

Spec == Init /\ [][Next]_vars

\* solve runs to completion once called: no step of it waits on anything.
FairSpec == Spec /\ WF_vars(Next)

SpecLoad == InitLoad /\ [][Construct]_vars

---------------------------------------------------------------------------
(* A frontier driven by arbitrary add and remove calls *)

\* The nodes a caller may pass to add: at any coordinate, either an open
\* cell's node with no action and no parent, or a target cell's node with an
\* action and (once a node is explored) the node explored last as parent.
FNodes ==
    {Node(v[1], x, y, v[2], v[3]) :
        x \in 0..MaxCoord, y \in 0..MaxCoord,
        v \in {<<OPEN, "None", None>>,
               <<TARGET, "UP",
                 IF explored_nodes = <<>> THEN None
                 ELSE <<explored_nodes[Len(explored_nodes)]>> >>}}

\* StackFrontier() or QueueFrontier()
InitFrontier ==
    /\ file = <<>>
    /\ pc = "frontier"
    /\ kind \in {"stack", "queue"}
    /\ InitCommon

\* frontier.add(n)
FAdd(n) ==
    /\ pc = "frontier"
    /\ ops < MaxOps
    /\ ops' = ops + 1
    /\ nodes' = add(nodes, explored_nodes, n)
    /\ raised' = ""
    /\ UNCHANGED <<mazeVars, pc, kind, explored_nodes, node, result>>

\* frontier.remove() that returns a node
FRemove ==
    /\ pc = "frontier"
    /\ ops < MaxOps
    /\ ~RemoveRaises(kind, nodes)
    /\ ops' = ops + 1
    /\ LET r == remove(kind, nodes, explored_nodes)
       IN  /\ node' = <<r.node>>
           /\ nodes' = r.nodes
           /\ explored_nodes' = r.explored_nodes
    /\ raised' = ""
    /\ UNCHANGED <<mazeVars, pc, kind, result>>

\* frontier.remove() that raises: self.nodes[-1] or self.nodes[0] raises
\* IndexError before anything is assigned, and no node is returned.
FRemoveEmpty ==
    /\ pc = "frontier"
    /\ ops < MaxOps
    /\ RemoveRaises(kind, nodes)
    /\ ops' = ops + 1
    /\ raised' = "IndexError"
    /\ node' = None
    /\ UNCHANGED <<mazeVars, pc, kind, nodes, explored_nodes, result>>

NextFrontier ==
    \/ \E n \in FNodes : FAdd(n)
    \/ FRemove
    \/ FRemoveEmpty

SpecFrontier == InitFrontier /\ [][NextFrontier]_vars

\* Both uses of a frontier: driven by solve, and called directly.
SpecAll == (Init \/ InitFrontier) /\ [][Next \/ NextFrontier]_vars

---------------------------------------------------------------------------
(* The grid as given, and graph notions on it, stated without the search *)

\* The grid the file holds: every line without its newline.
Grid0 == [i \in 1..Len(file) |-> SubSeq(file[i], 1, Len(file[i]) - 1)]

Cells0 ==
    UNION {{<<i - 1, j - 1>> : j \in 1..Len(Grid0[i])} : i \in 1..Len(Grid0)}

At0(c) == Grid0[c[1] + 1][c[2] + 1]

AtNow(c) == maze_arr[c[1] + 1][c[2] + 1]

Abs(i) == IF i < 0 THEN 0 - i ELSE i

\* 4-directional adjacency of two coordinates.
Adj(c, d) == Abs(c[1] - d[1]) + Abs(c[2] - d[2]) = 1

StartCell == CHOOSE c \in Cells0 : At0(c) = START

TargetCell == CHOOSE c \in Cells0 : At0(c) = TARGET

\* Breadth-first layers from front over non-wall cells: the number of moves
\* to the target, -1 if the layers run out first.
RECURSIVE LayerDist(_, _, _)
LayerDist(seen, front, d) ==
    IF TargetCell \in front THEN d
    ELSE IF front = {} THEN 0 - 1
    ELSE LET nxt == {c \in Cells0 \ seen :
                        At0(c) # WALL /\ \E f \in front : Adj(f, c)}
         IN  LayerDist(seen \cup nxt, nxt, d + 1)

\* Shortest-path distance from start to target, -1 if there is no path.
Distance == LayerDist({StartCell}, {StartCell}, 0)

Reachable == Distance >= 0

Returned == pc \in {"solved", "exhausted", "crashed"}

InSolve == pc \in {"running", "solved", "exhausted", "crashed"}

\* Coordinates on the parent chain of a node, the node's own first.
RECURSIVE Chain(_)
Chain(n) ==
    <<(<<n.x, n.y>>)>> \o (IF n.parent = None THEN <<>> ELSE Chain(n.parent[1]))

\* Cells of the current grid marked as path.
PathCells == {c \in Cells0 : AtNow(c) = PATH}

Coords(lst) == {<<lst[i].x, lst[i].y>> : i \in 1..Len(lst)}

NoRepeat(lst) ==
    \A i, j \in 1..Len(lst) :
        (lst[i].x = lst[j].x /\ lst[i].y = lst[j].y) => i = j

---------------------------------------------------------------------------
(* Claims *)

\* Number of parent links from a node back to the root.
ParentLinks(n) == Len(Chain(n)) - 1

\* C1: on a valid grid, with either discipline, solve returns True if and
\* only if the target is reachable from the start by up/down/left/right
\* moves over non-wall cells, and returns False exactly when it is not.
C1_SolveDecidesReachability ==
    Returned =>
        /\ pc # "crashed"
        /\ (result = "True") <=> Reachable
        /\ (result = "False") <=> ~Reachable

C1_Witness ==
    /\ pc = "solved" /\ result = "True" /\ kind = "stack"
    /\ Reachable /\ Distance >= 3
    /\ \E c \in Cells0 : At0(c) = WALL

\* C2: with the FIFO discipline, when solve returns True the number of
\* parent links from the popped target node to the root equals the shortest
\* path distance from start to target, and the number of cells marked as
\* path is that distance minus one.
C2_FifoShortestPath ==
    (pc = "solved" /\ kind = "queue") =>
        /\ ParentLinks(node[1]) = Distance
        /\ Cardinality(PathCells) = Distance - 1

C2_Witness ==
    /\ pc = "solved" /\ kind = "queue"
    /\ Distance = 4
    /\ ParentLinks(node[1]) = 4
    /\ Cardinality(PathCells) = 3

\* C3: a solve call with a fresh frontier always ends, solved or exhausted;
\* every loop iteration adds to explored exactly the popped node, whose
\* coordinate was pending and was not explored before.
C3_SolveTerminates ==
    /\ <>(pc \in {"solved", "exhausted"})
    /\ [][(pc = "running" /\ steps' # steps) =>
            /\ Len(explored_nodes') = Len(explored_nodes) + 1
            /\ Coords(explored_nodes') = Coords(explored_nodes) \cup
                                          {Chain(node'[1])[1]}
            /\ Chain(node'[1])[1] \in Coords(nodes) \ Coords(explored_nodes)
            /\ Chain(node'[1])[1] \notin Coords(nodes')]_vars

C3_Witness ==
    /\ pc = "exhausted"
    /\ steps >= 4
    /\ Len(explored_nodes) = steps

\* C4: throughout and after one solve call on a freshly constructed Maze
\* the step counter never exceeds rows x cols.
C4_StepsWithinCells ==
    InSolve => steps <= Len(Grid0) * Len(Grid0[1])

C4_Witness ==
    /\ InSolve
    /\ Len(Grid0) * Len(Grid0[1]) >= 6
    /\ steps = Len(Grid0) * Len(Grid0[1])

\* C5: after any sequence of add and remove calls on a frontier that starts
\* empty, no coordinate is both pending and explored, and none occurs twice
\* within pending or within explored.
C5_FrontierDisjoint ==
    /\ Coords(nodes) \cap Coords(explored_nodes) = {}
    /\ NoRepeat(nodes)
    /\ NoRepeat(explored_nodes)

C5_Witness ==
    /\ pc = "frontier"
    /\ ops = MaxOps
    /\ Len(nodes) = 1
    /\ Len(explored_nodes) = 1

\* Number of cells of the given grid holding ch.
Count0(ch) == Cardinality({c \in Cells0 : At0(c) = ch})

Jagged0 == \E i, j \in 1..Len(Grid0) : Len(Grid0[i]) # Len(Grid0[j])

\* C6: constructing a Maze fails with a configuration error, and no solve
\* can run, when the grid is empty, or its rows differ in length, or it has
\* no start cell, or it has no target cell.
C6_InvalidGridRejected ==
    (pc # "new" /\ (\/ Len(Grid0) = 0
                    \/ Jagged0
                    \/ Count0(START) = 0
                    \/ Count0(TARGET) = 0)) =>
        /\ pc = "config_error"
        /\ raised # ""
        /\ ~ENABLED (\E k \in {"stack", "queue"} : SolveBegin(k))

C6_Witness ==
    /\ pc = "config_error"
    /\ Len(Grid0) = MaxFileRows
    /\ ~Jagged0
    /\ Count0(START) = 1
    /\ Count0(TARGET) = 0

\* C7: constructing a Maze fails with a configuration error whenever the
\* grid holds more than one start cell or more than one target cell.
C7_DuplicateMarkerRejected ==
    (pc # "new" /\ (Count0(START) > 1 \/ Count0(TARGET) > 1)) =>
        pc = "config_error"

\* C8: after solve returns True the cells marked as path are exactly the
\* coordinates strictly between start and target on the parent chain of the
\* popped target node; along the chain consecutive coordinates are
\* 4-adjacent (the first marked one to the start, the last to the target)
\* and no marked cell was a wall, the start or the target.  After solve
\* returns False no cell is marked as path.
C8_PathIsParentChain ==
    /\ pc = "solved" =>
         LET ch == Chain(node[1]) IN
         /\ Len(ch) >= 2
         /\ ch[1] = TargetCell
         /\ ch[Len(ch)] = StartCell
         /\ \A i \in 1..(Len(ch) - 1) : Adj(ch[i], ch[i + 1])
         /\ \A i, j \in 1..Len(ch) : ch[i] = ch[j] => i = j
         /\ PathCells = {ch[i] : i \in 2..(Len(ch) - 1)}
         /\ \A c \in PathCells : At0(c) = OPEN
    /\ pc = "exhausted" => PathCells = {}

C8_Witness ==
    /\ pc = "solved"
    /\ kind = "stack"
    /\ Cardinality(PathCells) > Distance
    /\ \E c \in Cells0 : AtNow(c) = EXPLORED

\* C9: during solve a cell becomes explored-marked only if it is the popped
\* cell and held open at that moment; every cell that is wall, start or
\* target in the given grid holds that value in every state of solve and
\* after it returns, whatever the outcome.
C9_MarksOnlyOpenCells ==
    /\ [](pc \in {"ready", "running", "solved", "exhausted", "crashed"} =>
            \A c \in Cells0 :
                At0(c) \in {WALL, START, TARGET} => AtNow(c) = At0(c))
    /\ [][pc = "running" =>
            \A c \in Cells0 :
                (maze_arr'[c[1] + 1][c[2] + 1] = EXPLORED /\ AtNow(c) # EXPLORED)
                    => (AtNow(c) = OPEN /\ c = <<node'[1].x, node'[1].y>>)]_vars

C9_Witness ==
    /\ pc = "exhausted"
    /\ Cardinality({c \in Cells0 : AtNow(c) = EXPLORED}) >= 2
    /\ \E c \in Cells0 : At0(c) = WALL

\* The coordinates one step UP, LEFT, DOWN, RIGHT of the start cell, in that
\* order, that lie in the grid and are not walls.
StartNeighbours ==
    SelectSeq(<< <<StartCell[1] - 1, StartCell[2]>>,
                 <<StartCell[1], StartCell[2] - 1>>,
                 <<StartCell[1] + 1, StartCell[2]>>,
                 <<StartCell[1], StartCell[2] + 1>> >>,
              LAMBDA c : c \in Cells0 /\ At0(c) # WALL)

\* The neighbour of the start cell the discipline pops first.
FirstPopped ==
    IF kind = "queue" THEN StartNeighbours[1]
    ELSE StartNeighbours[Len(StartNeighbours)]

\* C10 as stated: with start and target 4-adjacent, solve returns True with
\* the step counter exactly 2, whatever the other neighbours of the start
\* cell and whichever discipline.
C10_AdjacentTwoSteps ==
    (Returned /\ Adj(StartCell, TargetCell)) =>
        (result = "True" /\ steps = 2)

\* C10 amended: with start and target 4-adjacent, solve returns True with
\* the step counter at least 2, and exactly 2 precisely when the target is
\* the neighbour of the start the discipline pops first: the first non-wall
\* neighbour in the order UP, LEFT, DOWN, RIGHT under FIFO, the last under
\* LIFO.
C10_AdjacentStepCount ==
    (Returned /\ Adj(StartCell, TargetCell)) =>
        /\ result = "True"
        /\ steps >= 2
        /\ (steps = 2) <=> (FirstPopped = TargetCell)

C10_Witness ==
    /\ pc = "solved"
    /\ Adj(StartCell, TargetCell)
    /\ steps = 2
    /\ kind = "stack"
    /\ Len(StartNeighbours) >= 3

\* C11: with start and target 4-adjacent, under both disciplines solve
\* returns True with a path of exactly 1 move: the parent of the popped
\* target node is the root start node, and no cell is marked as path, also
\* when LIFO explores other cells before it pops the target.
C11_AdjacentOneMove ==
    (Returned /\ Adj(StartCell, TargetCell)) =>
        /\ pc = "solved"
        /\ result = "True"
        /\ <<node[1].x, node[1].y>> = TargetCell
        /\ ParentLinks(node[1]) = 1
        /\ node[1].parent # None
        /\ node[1].parent[1].parent = None
        /\ <<node[1].parent[1].x, node[1].parent[1].y>> = StartCell
        /\ PathCells = {}

C11_Witness ==
    /\ pc = "solved"
    /\ kind = "stack"
    /\ Adj(StartCell, TargetCell)
    /\ steps >= 5
    /\ ParentLinks(node[1]) = 1

\* The non-wall cells of the given grid reachable from the cells of front
\* by 4-directional moves, seen included.
RECURSIVE Closure(_, _)
Closure(seen, front) ==
    IF front = {} THEN seen
    ELSE LET nxt == {c \in Cells0 \ seen :
                        At0(c) # WALL /\ \E f \in front : Adj(f, c)}
         IN  Closure(seen \cup nxt, nxt)

\* The start cell and every non-wall cell reachable from it.
ReachSet == Closure({StartCell}, {StartCell})

\* C12: when the target is not reachable from the start, solve returns
\* False with pending empty and the explored coordinates exactly the
\* non-wall cells reachable from the start (the start included); each of
\* them that was open is marked explored and no other cell is changed.
C12_ExhaustedExploresReachable ==
    (Returned /\ ~Reachable) =>
        /\ pc = "exhausted"
        /\ result = "False"
        /\ nodes = <<>>
        /\ Coords(explored_nodes) = ReachSet
        /\ Len(explored_nodes) = Cardinality(ReachSet)
        /\ \A c \in ReachSet :
              AtNow(c) = (IF At0(c) = OPEN THEN EXPLORED ELSE At0(c))
        /\ \A c \in Cells0 \ ReachSet : AtNow(c) = At0(c)

C12_Witness ==
    /\ pc = "exhausted"
    /\ ~Reachable
    /\ Cardinality(ReachSet) >= 4
    /\ \E c \in Cells0 \ ReachSet : At0(c) = OPEN

\* C13: during one solve call on a freshly constructed Maze the step counter
\* equals the number of remove calls made so far (the pop of the start node
\* included, add calls not counted), hence the number of explored nodes, in
\* every state between loop iterations and at return: it starts at 0, every
\* pop raises it by one and nothing else changes it.
C13_StepsCountRemoves ==
    /\ [](pc = "ready" => steps = 0)
    /\ [](InSolve => steps = Len(explored_nodes))
    /\ [][pc # "new" =>
            /\ steps' \in {steps, steps + 1}
            /\ (steps' = steps + 1) <=>
                  (/\ nodes # <<>>
                   /\ node' # None
                   /\ explored_nodes' = Append(explored_nodes, node'[1])
                   /\ \E i \in 1..Len(nodes) : nodes[i] = node'[1])]_vars

C13_Witness ==
    /\ pc = "running"
    /\ steps = 3
    /\ Len(explored_nodes) = 3
    /\ Len(nodes) >= 3

\* C14: remove on a non-empty frontier returns, takes out of pending and
\* appends to explored exactly one node: for the stack the node added most
\* recently among those pending, for the queue the one added earliest; the
\* other pending nodes keep their order; is_empty holds iff nothing is
\* pending.  (add appends, so pending is in order of insertion.)
C14_RemoveDiscipline ==
    /\ [](pc = "frontier" => (is_empty(nodes) <=> nodes = <<>>))
    /\ [][pc = "frontier" =>
            /\ Len(nodes') > Len(nodes) =>
                  /\ nodes' = Append(nodes, nodes'[Len(nodes')])
                  /\ explored_nodes' = explored_nodes
            /\ Len(nodes') < Len(nodes) => explored_nodes' # explored_nodes
            /\ explored_nodes' # explored_nodes =>
                  /\ node' # None
                  /\ explored_nodes' = Append(explored_nodes, node'[1])
                  /\ kind = "stack" => nodes = Append(nodes', node'[1])
                  /\ kind = "queue" => nodes = <<node'[1]>> \o nodes']_vars

C14_Witness ==
    /\ pc = "frontier"
    /\ kind = "stack"
    /\ Len(nodes) = 2
    /\ Len(explored_nodes) = 1
    /\ node = <<explored_nodes[1]>>

SameCoord(a, b) == a.x = b.x /\ a.y = b.y

\* C15: add is idempotent on coordinates.  In every frontier state, for
\* every node n: a coordinate already pending or explored makes add(n) change
\* nothing, otherwise n itself is appended; and once n was added, add of any
\* node of the same coordinate (whatever its state, action, parent) changes
\* nothing, so the node added first for a coordinate is the one kept.  An
\* add call never changes explored.
C15_AddIdempotent ==
    /\ [](pc = "frontier" =>
            \A n \in FNodes :
                LET once == add(nodes, explored_nodes, n) IN
                /\ (\E i \in 1..Len(explored_nodes) :
                        SameCoord(explored_nodes[i], n)) => once = nodes
                /\ (\E i \in 1..Len(nodes) : SameCoord(nodes[i], n))
                        => once = nodes
                /\ (<<n.x, n.y>> \notin Coords(nodes) \cup Coords(explored_nodes))
                        => once = Append(nodes, n)
                /\ \A m \in FNodes :
                        SameCoord(m, n) => add(once, explored_nodes, m) = once)
    /\ [][(pc = "frontier" /\ ops' # ops /\ explored_nodes' = explored_nodes
              /\ raised' = "") =>
            \/ nodes' = nodes
            \/ /\ nodes' = Append(nodes, nodes'[Len(nodes')])
               /\ <<nodes'[Len(nodes')].x, nodes'[Len(nodes')].y>> \notin
                      Coords(nodes) \cup Coords(explored_nodes)]_vars

C15_Witness ==
    /\ pc = "frontier"
    /\ ops = 3
    /\ Len(nodes) = 1
    /\ Len(explored_nodes) = 1
    /\ nodes[1].state = TARGET
    /\ nodes[1].parent = <<explored_nodes[1]>>

\* Every node the frontier holds, pending or explored.
AllNodes ==
    {nodes[i] : i \in 1..Len(nodes)} \cup
    {explored_nodes[i] : i \in 1..Len(explored_nodes)}

\* C17: in every state of solve the parent links of the pending and
\* explored nodes form a tree rooted at the start node: the root is the only
\* node without a parent; every other node's parent is a node of explored,
\* popped strictly earlier, at a 4-adjacent coordinate; the parent chain of
\* every node ends at the root without repeating a coordinate.
C17_ParentTree ==
    InSolve =>
        /\ \A n \in AllNodes : n.parent = None <=> <<n.x, n.y>> = StartCell
        /\ Cardinality({n \in AllNodes : n.parent = None}) = 1
        /\ \A n \in AllNodes : n.parent # None =>
              /\ \E i \in 1..Len(explored_nodes) :
                    /\ explored_nodes[i] = n.parent[1]
                    /\ \A j \in 1..Len(explored_nodes) :
                          explored_nodes[j] = n => i < j
              /\ Adj(<<n.x, n.y>>, <<n.parent[1].x, n.parent[1].y>>)
        /\ \A n \in AllNodes :
              LET ch == Chain(n) IN
              /\ ch[Len(ch)] = StartCell
              /\ \A i, j \in 1..Len(ch) : ch[i] = ch[j] => i = j

C17_Witness ==
    /\ pc = "running"
    /\ Len(nodes) >= 2
    /\ Len(explored_nodes) >= 4
    /\ \E n \in AllNodes : Len(Chain(n)) >= 5

\* The four directions in the order UP, LEFT, DOWN, RIGHT with their offsets.
Directions ==
    << <<"UP", 0 - 1, 0>>, <<"LEFT", 0, 0 - 1>>, <<"DOWN", 1, 0>>, <<"RIGHT", 0, 1>> >>

\* The cells of the current grid.
CellsNow ==
    UNION {{<<i - 1, j - 1>> : j \in 1..Len(maze_arr[i])} : i \in 1..Len(maze_arr)}

\* The neighbours of node n as the grid now stands: one node per direction
\* whose adjacent coordinate is in the grid and not a wall.
ExpectedNeighbours(n) ==
    LET at(k) == <<n.x + Directions[k][2], n.y + Directions[k][3]>>
        keep == SelectSeq(<<1, 2, 3, 4>>,
                          LAMBDA k : at(k) \in CellsNow /\ AtNow(at(k)) # WALL)
    IN  [i \in 1..Len(keep) |->
            [state |-> AtNow(at(keep[i])), x |-> at(keep[i])[1],
             y |-> at(keep[i])[2], action |-> Directions[keep[i]][1],
             parent |-> <<n>>]]

\* A node standing at cell c, with the given parent.
NodeAt(c, p) == [state |-> AtNow(c), x |-> c[1], y |-> c[2], action |-> "None", parent |-> p]

\* The neighbours the program computes for a node at c.
NeighboursAt(c) == _get_neighbors(maze_arr, rows_count, cells_count, NodeAt(c, None))

\* C18: for a node at any cell of the grid, _get_neighbors returns exactly
\* the nodes of the adjacent coordinates that are inside the grid and not a
\* wall, in the order UP, LEFT, DOWN, RIGHT, each with the cell's current
\* value as state, the direction as action and the given node as parent; and
\* every cell it reads (in _next_cell and in _get_state) is inside the grid.
C18_NeighboursExact ==
    (pc = "ready" \/ InSolve) =>
        /\ \A c \in CellsNow :
              LET nb == NeighboursAt(c) IN
              /\ nb = ExpectedNeighbours(NodeAt(c, None))
              /\ \A i \in 1..Len(nb) : <<nb[i].x, nb[i].y>> \in CellsNow
        /\ node # None =>
              _get_neighbors(maze_arr, rows_count, cells_count, node[1]) =
                  ExpectedNeighbours(node[1])
        /\ \A c \in CellsNow : \A k \in 1..Len(movements) :
              NextCellReads(rows_count, cells_count, c[1], c[2], movements[k])
                  \subseteq CellsNow

C18_Witness ==
    /\ pc = "solved"
    /\ \E c \in CellsNow :
          /\ Len(NeighboursAt(c)) = 4
          /\ \E i \in 1..4 : NeighboursAt(c)[i].state = EXPLORED
    /\ \E c \in CellsNow :
          \E i \in 1..Len(NeighboursAt(c)) : NeighboursAt(c)[i].state = PATH
    /\ \E c \in CellsNow : \E d \in CellsNow :
          /\ Adj(c, d)
          /\ AtNow(d) = WALL
          /\ Len(NeighboursAt(c)) >= 1

\* C19: remove on a frontier with nothing pending, stack or queue, raises
\* and returns no node, and leaves pending and explored as they were; a
\* remove on a non-empty frontier does not raise; solve removes only from a
\* non-empty frontier and so never raises this error.
C19_RemoveOnEmpty ==
    /\ [](pc = "frontier" => (RemoveRaises(kind, nodes) <=> nodes = <<>>))
    /\ []((pc = "frontier" /\ nodes = <<>> /\ ops < MaxOps) =>
              ENABLED FRemoveEmpty /\ ~ENABLED FRemove)
    /\ [][(pc = "frontier" /\ nodes = <<>> /\ ops' # ops) =>
              \/ /\ raised' = "IndexError"
                 /\ node' = None
                 /\ nodes' = nodes
                 /\ explored_nodes' = explored_nodes
              \/ /\ raised' = ""
                 /\ node' = node
                 /\ explored_nodes' = explored_nodes]_vars
    /\ [][(pc = "frontier" /\ raised' = "IndexError") =>
              /\ nodes = <<>>
              /\ nodes' = <<>>
              /\ explored_nodes' = explored_nodes
              /\ node' = None]_vars
    /\ [](InSolve => raised # "IndexError")
    /\ [][(pc = "running" /\ steps' # steps) =>
              /\ nodes # <<>>
              /\ ~RemoveRaises(kind, nodes)
              /\ node' # None]_vars

C19_Witness ==
    /\ pc = "frontier"
    /\ raised = "IndexError"
    /\ node = None
    /\ nodes = <<>>
    /\ Len(explored_nodes) >= 1

\* C20: in every state of solve on a valid grid every pending or explored
\* node has state open or target, except the root, the only node with state
\* start and the only one without a parent; no node has the state of a wall,
\* an explored mark or a path mark.  So the parent walk of _apply_solution
\* from a target node stops at the root and never reads a missing parent.
C20_NodeStates ==
    InSolve =>
        /\ \A n \in AllNodes :
              /\ n.parent = None => n.state = START
              /\ n.parent # None => n.state \in {OPEN, TARGET}
              /\ n.state = At0(<<n.x, n.y>>)
        /\ Cardinality({n \in AllNodes : n.state = START}) = 1
        /\ \A n \in AllNodes :
              n.state = TARGET => _apply_solution(maze_arr, n).raised = ""
        /\ pc # "crashed"
        /\ raised = ""

C20_Witness ==
    /\ pc = "solved"
    /\ nodes # <<>>
    /\ Len(explored_nodes) >= 5
    /\ Len(Chain(node[1])) >= 4
    /\ \E c \in CellsNow : AtNow(c) = EXPLORED

====
